---- MODULE Spec2Model ----
(***************************************************************************)
(* The CyberPower PDU driver of kvmd (kvmd/plugins/ugpio/cyberpower.py):   *)
(* the outlet state table, the reconciliation loop run(), read() and       *)
(* write(), with the dict objects of the Python heap made explicit so that *)
(* "prev_state = self.__state" keeps its reference semantics.              *)
(*                                                                         *)
(* asyncio runs one coroutine at a time: a coroutine runs without          *)
(* interruption from one suspension point to the next.  The suspension     *)
(* points are the external command (aioproc.read_process), the inter-pass  *)
(* wait (notifier.wait) and the settle delay (asyncio.sleep).  Each action *)
(* below is one such uninterrupted stretch of code.                        *)
(***************************************************************************)
EXTENDS Integers, Sequences, FiniteSets, TLC

VARIABLES
    heap,           \* the dict objects: object id -> dict
    state,          \* self.__state: the id of the current State Table
    prev_state,     \* run()'s local prev_state: an id, or NoRef for None
    it,             \* run()'s "for pin in self.__state" iterator: dict id and position
    rpc,            \* where run() is: "init", "update", "wait", "crashed", "cancelled"
    w,              \* the write() call: where it is, its pin, and what it has done
    pending,        \* the notifier holds an undelivered notification
    rd,             \* what the last read() answered
    registered,     \* the pins the host has registered
    since,          \* pins set by a successful poll or set since the latest degradation
    pass_failed,    \* a poll of the pass under way (or just ended) has failed
    loop_notified,  \* the pass that just ended raised a notification
    hist,           \* the history of passes below is being recorded
    outcomes,       \* per position, the outcome of the latest poll of that pin
    same,           \* the polls of this pass so far ended as the previous pass's did
    last_table,     \* the contents of the State Table at the end of the latest pass
    regs,           \* per pin, how the host has registered it (recorded with the history)
    order,          \* the registered pins, in the order of their first registration
    polled          \* the pins whose command has answered in the pass under way, in order

vars == <<heap, state, prev_state, it, rpc, w, pending, rd, registered,
          since, pass_failed, loop_notified, hist, outcomes, same, last_table, regs,
          order, polled>>

(***************************************************************************)
(* Bounds of the model.                                                    *)
(***************************************************************************)
Pins == {"1", "2"}      \* the pin identifiers the host may register
MaxCodeLen == 1         \* digits after "INTEGER: " in a response

(***************************************************************************)
(* Values.                                                                 *)
(***************************************************************************)
None == "None"
Readings == {"True", "False", None}
Ids == {1, 2, 3}
NoRef == 0
NoIter == [d |-> NoRef, i |-> 0]
Idle == [pc |-> "idle", pin |-> "-", setok |-> FALSE, notes |-> 0]
NoRead == [pin |-> "-", res |-> "-"]
NoSince == [any |-> FALSE, set |-> {}]
NoRegs == [p \in Pins |-> [asin |-> FALSE, initial |-> "-", last |-> "-"]]

\* a code table in which every code other than "1" reads as off
InputsAnyCode == [c \in {"1", "2", "3"} |-> IF c = "1" THEN "True" ELSE "False"]

\* _INPUTS: the code table of the response's final character.
INPUTS == [c \in {"1", "2"} |-> IF c = "1" THEN "True" ELSE "False"]

\* _OUTPUTS: the action code a set command carries.
OUTPUTS == [a \in {"True", "False", "cycle"} |->
              IF a = "True" THEN "1" ELSE IF a = "False" THEN "2" ELSE "3"]

(***************************************************************************)
(* Python dicts: a sequence of key/value entries in insertion order.       *)
(***************************************************************************)
KeySet(d) == {d[i].k : i \in 1..Len(d)}

DictGet(d, k) == d[CHOOSE i \in 1..Len(d) : d[i].k = k].v

\* every entry takes the value, not only the key's
DictSetAll(d, k, v) ==
    IF k \in KeySet(d)
    THEN [i \in 1..Len(d) |-> [k |-> d[i].k, v |-> v]]
    ELSE Append([i \in 1..Len(d) |-> [k |-> d[i].k, v |-> v]], [k |-> k, v |-> v])

\* d[k] = v
DictSet(d, k, v) ==
    IF k \in KeySet(d)
    THEN [i \in 1..Len(d) |-> IF d[i].k = k THEN [k |-> k, v |-> v] ELSE d[i]]
    ELSE Append(d, [k |-> k, v |-> v])

\* dict.fromkeys(d, v)
FromKeys(d, v) == [i \in 1..Len(d) |-> [k |-> d[i].k, v |-> v]]

\* d1 == d2: the same keys with the same values, whatever the order
DictEq(d1, d2) == {d1[i] : i \in 1..Len(d1)} = {d2[i] : i \in 1..Len(d2)}

(***************************************************************************)
(* The external command's answer: an exit status and the captured text.    *)
(* A text is a sequence of tokens; OidTok[p] stands for the characters     *)
(* "<oid_outlets>.4.<p> = INTEGER:".                                       *)
(***************************************************************************)
OidTok == [p \in Pins |-> IF p = "1" THEN "oid.4.1 = INTEGER:" ELSE "oid.4.2 = INTEGER:"]
Blank == {" ", "\n"}
Digits == {"1", "2", "3"}

RECURSIVE SeqsUpTo(_, _)
SeqsUpTo(S, n) ==
    IF n = 0 THEN {<<>>}
    ELSE LET shorter == SeqsUpTo(S, n - 1)
         IN  shorter \cup {Append(s, x) : s \in shorter, x \in S}

Texts ==
    {wrap[1] \o head \o code \o wrap[2] :
        wrap \in {<< <<>>, <<>> >>, << <<" ">>, <<"\n">> >>},
        head \in {<<OidTok[p], " ">> : p \in Pins} \cup {<<"Timeout:">>, <<>>},
        code \in SeqsUpTo(Digits, MaxCodeLen)}

Procs ==
    {[returncode |-> 0, text |-> t] : t \in Texts}
    \cup {[returncode |-> 1, text |-> t] : t \in {<<>>, <<OidTok["1"], " ", "1">>}}

\* str.strip()
RECURSIVE Strip(_)
Strip(t) ==
    IF t = <<>> THEN t
    ELSE IF Head(t) \in Blank THEN Strip(Tail(t))
    ELSE IF t[Len(t)] \in Blank THEN Strip(SubSeq(t, 1, Len(t) - 1))
    ELSE t

\* str.startswith()
StartsWith(t, p) == Len(t) >= Len(p) /\ SubSeq(t, 1, Len(p)) = p

\* f"{self.__oid_outlets}.4.{pin} = INTEGER: "
Prefix(pin) == <<OidTok[pin], " ">>

\* The body of the try block of __update_power and of __set_power: the value
\* it stores, or the exception it raises.
Fetch(proc, pin) ==
    IF proc.returncode # 0
    THEN [exc |-> "RuntimeError", val |-> None]
    ELSE LET stripped == Strip(proc.text)
         IN  IF StartsWith(stripped, Prefix(pin))
             THEN IF stripped[Len(stripped)] \in DOMAIN INPUTS
                  THEN [exc |-> "none", val |-> INPUTS[stripped[Len(stripped)]]]
                  ELSE [exc |-> "KeyError", val |-> None]
             ELSE [exc |-> "RuntimeError", val |-> None]

\* What the command of a pin can be answered with, as the try block takes it.
Answers == [pin \in Pins |-> {Fetch(proc, pin) : proc \in Procs}]

(***************************************************************************)
(* The heap.                                                               *)
(***************************************************************************)
\* The id of a new object: one that neither prev_state nor the iterator holds.
Fresh == CHOOSE i \in Ids : /\ i \notin {prev_state, it.d}
                            /\ \A j \in Ids : j \notin {prev_state, it.d} => i <= j

\* The objects still referred to.  An object only the for loop's iterator holds
\* is read for its keys alone and nothing can write to it: its values are not kept.
Collect(h, st, prev, itd) ==
    [i \in Ids |-> IF i \in {st, prev} THEN h[i]
                   ELSE IF i = itd THEN [j \in 1..Len(h[i]) |-> [k |-> h[i][j].k, v |-> None]]
                   ELSE <<>>]

\* The State Table.
Table == heap[state]

(***************************************************************************)
(* __update_power and __set_power.                                         *)
(***************************************************************************)
\* "except RuntimeError" in place of "except Exception"
CatchesRuntimeErrorOnly(exc) == exc = "RuntimeError"

\* __update_power's "except Exception": RuntimeError and KeyError are both caught.
UpdateCatches(exc) == exc \in {"RuntimeError", "KeyError"}

\* __set_power's "except Exception".
SetCatches(exc) == exc \in {"RuntimeError", "KeyError"}

\* only the pin at hand loses its reading
DegradeOnePin(d, pin) == DictSet(d, pin, None)

\* the handler only logs: the State Table stays as it is
KeepTable(d, pin) == d

\* the new State Table has the keys in the opposite order
FromKeysReversed(d, pin) == [i \in 1..Len(d) |-> [k |-> d[Len(d) + 1 - i].k, v |-> None]]

\* __update_power's handler: the new State Table, dict.fromkeys(self.__state, None)
UpdateDegrade(d, pin) == FromKeys(d, None)

\* __set_power's handler: the new State Table, dict.fromkeys(self.__state, None)
SetDegrade(d, pin) == FromKeys(d, None)

\* the reading is stored under a second entry for the pin
StoreSecondEntry(d, pin, val) == Append(d, [k |-> pin, v |-> val])

\* the reading is dropped
StoreNothing(d, pin, val) == d

\* every pin takes the reading
StoreReadingEverywhere(d, pin, val) == FromKeys(d, val)

\* self.__state[pin] = _INPUTS[stripped[-1]]
StoreReading(d, pin, val) == DictSet(d, pin, val)

\* __update_power(pin) once the try block has ended as r: the heap and
\* self.__state it leaves, the exception that escapes it, the poll's outcome.
update_power(pin, r) ==
        IF r.exc = "none"
        THEN [heap |-> [heap EXCEPT ![state] = StoreReading(@, pin, r.val)],
              state |-> state, raised |-> "none", out |-> r.val]
        ELSE IF UpdateCatches(r.exc)
        THEN [heap |-> [heap EXCEPT ![Fresh] = UpdateDegrade(heap[state], pin)],
              state |-> Fresh, raised |-> "none", out |-> "fail"]
        ELSE [heap |-> heap, state |-> state, raised |-> r.exc, out |-> "fail"]

\* __set_power(state, pin) once the try block has ended as r.
set_power(pin, r) ==
        IF r.exc = "none"
        THEN [heap |-> [heap EXCEPT ![state] = StoreReading(@, pin, r.val)],
              state |-> state, raised |-> "none", out |-> r.val]
        ELSE IF SetCatches(r.exc)
        THEN [heap |-> [heap EXCEPT ![Fresh] = SetDegrade(heap[state], pin)],
              state |-> Fresh, raised |-> "none", out |-> "fail"]
        ELSE [heap |-> heap, state |-> state, raised |-> r.exc, out |-> "fail"]

\* The pins set since the latest degradation, after a poll or set that ended out.
SinceAfter(pin, out) ==
    IF out = "fail" THEN [any |-> TRUE, set |-> {}]
    ELSE IF since.any THEN [since EXCEPT !.set = @ \cup {pin}]
    ELSE since

(***************************************************************************)
(* read().                                                                 *)
(***************************************************************************)
\* the stored value is handed back whatever it is
ReadNoCheck(pin) == DictGet(Table, pin)

read(pin) ==
    IF DictGet(Table, pin) = None
    THEN "GpioDriverOfflineError"
    ELSE DictGet(Table, pin)

(***************************************************************************)
(* Initial state: the object as __init__ leaves it.                        *)
(***************************************************************************)
InitDriver ==
    /\ state = 1
    /\ prev_state = NoRef
    /\ it = NoIter
    /\ rpc = "init"
    /\ w = Idle
    /\ pending = FALSE
    /\ rd = NoRead
    /\ since = NoSince
    /\ pass_failed = FALSE
    /\ loop_notified = FALSE
    /\ outcomes = <<>>
    /\ same = TRUE
    /\ last_table = <<>>
    /\ regs = NoRegs
    /\ polled = <<>>

Init ==
    /\ InitDriver
    /\ heap = [i \in Ids |-> <<>>]
    /\ registered = {}
    /\ order = <<>>
    /\ hist = FALSE

(***************************************************************************)
(* Registration.                                                           *)
(***************************************************************************)
register_input(pin) ==
    /\ rpc = "init"
    /\ heap' = [heap EXCEPT ![state] = DictSet(@, pin, None)]
    /\ registered' = registered \cup {pin}
    /\ regs' = IF hist THEN [regs EXCEPT ![pin].asin = TRUE, ![pin].last = "in"] ELSE regs
    /\ order' = IF pin \in registered THEN order ELSE Append(order, pin)
    /\ rd' = NoRead
    /\ UNCHANGED <<state, prev_state, it, rpc, w, pending, since, pass_failed,
                   loop_notified, hist, outcomes, same, last_table, polled>>

register_output(pin, initial) ==
    /\ rpc = "init"
    /\ heap' = [heap EXCEPT ![state] = DictSet(@, pin, initial)]
    /\ registered' = registered \cup {pin}
    /\ regs' = IF hist THEN [regs EXCEPT ![pin].initial = initial, ![pin].last = "out"]
                      ELSE regs
    /\ order' = IF pin \in registered THEN order ELSE Append(order, pin)
    /\ rd' = NoRead
    /\ UNCHANGED <<state, prev_state, it, rpc, w, pending, since, pass_failed,
                   loop_notified, hist, outcomes, same, last_table, polled>>

(***************************************************************************)
(* run().                                                                  *)
(***************************************************************************)
\* the first pass only records the table: run() starts with nothing to compare
EndOfPassFirstQuiet(h, st, pnd) ==
    LET changed == prev_state # NoRef /\ ~DictEq(h[st], h[prev_state])
        prev == IF changed \/ prev_state = NoRef THEN st ELSE prev_state
    IN  /\ prev_state' = prev
        /\ state' = st
        /\ heap' = Collect(h, st, prev, NoRef)
        /\ pending' = (pnd \/ changed)
        /\ it' = NoIter
        /\ rpc' = "wait"
        /\ loop_notified' = changed
        /\ last_table' = IF hist THEN h[st] ELSE last_table

\* Lines 134-138 with the State Table st in heap h: compare with prev_state,
\* notify and keep the reference if they differ, then wait.
EndOfPass(h, st, pnd) ==
    LET changed == \/ prev_state = NoRef
                   \/ ~DictEq(h[st], h[prev_state])
        prev == IF changed THEN st ELSE prev_state
    IN  /\ prev_state' = prev
        /\ state' = st
        /\ heap' = Collect(h, st, prev, NoRef)
        /\ pending' = (pnd \/ changed)
        /\ it' = NoIter
        /\ rpc' = "wait"
        /\ loop_notified' = changed
        /\ last_table' = IF hist THEN h[st] ELSE last_table

\* Lines 130-132: the for loop starts on the dict self.__state refers to and
\* the first command is issued; with no pin the pass ends at once.
BeginPass(pnd) ==
    /\ same' = IF hist THEN TRUE ELSE same
    /\ polled' = <<>>
    /\ pass_failed' = FALSE
    /\ IF Len(Table) = 0
       THEN EndOfPass(heap, state, pnd)
       ELSE /\ rpc' = "update"
            /\ it' = [d |-> state, i |-> 1]
            /\ pending' = pnd
            /\ loop_notified' = FALSE
            /\ UNCHANGED <<heap, state, prev_state, last_table>>

RunStart ==
    /\ rpc = "init"
    /\ outcomes' = IF hist THEN [i \in 1..Len(Table) |-> "-"] ELSE outcomes
    /\ BeginPass(pending)
    /\ rd' = NoRead
    /\ UNCHANGED <<w, registered, since, hist, regs, order>>

\* The command of the pin at hand answers: __update_power finishes, and run()
\* goes on to the next pin's command or to the end of the pass.
UpdatePowerDone ==
    /\ rpc = "update"
    /\ \E r \in Answers[heap[it.d][it.i].k] :
       LET pin == heap[it.d][it.i].k
           u == update_power(pin, r)
       IN  /\ outcomes' = IF hist THEN [outcomes EXCEPT ![it.i] = u.out] ELSE outcomes
           /\ same' = IF hist THEN (same /\ outcomes[it.i] = u.out) ELSE same
           /\ since' = SinceAfter(pin, u.out)
           /\ pass_failed' = (pass_failed \/ u.out = "fail")
           /\ polled' = Append(polled, pin)
           /\ IF u.raised # "none"
              THEN /\ rpc' = "crashed"
                   /\ it' = NoIter
                   /\ prev_state' = NoRef
                   /\ state' = u.state
                   /\ heap' = Collect(u.heap, u.state, NoRef, NoRef)
                   /\ UNCHANGED <<pending, last_table, loop_notified>>
              ELSE IF it.i < Len(heap[it.d])
              THEN /\ it' = [it EXCEPT !.i = @ + 1]
                   /\ state' = u.state
                   /\ heap' = Collect(u.heap, u.state, prev_state, it.d)
                   /\ UNCHANGED <<rpc, prev_state, pending, last_table, loop_notified>>
              ELSE EndOfPass(u.heap, u.state, pending)
    /\ rd' = NoRead
    /\ UNCHANGED <<w, registered, hist, regs, order>>

\* notifier.wait(state_poll) ends because the poll interval has elapsed.
WaitTimeout ==
    /\ rpc = "wait"
    /\ BeginPass(pending)
    /\ rd' = NoRead
    /\ UNCHANGED <<w, registered, since, hist, regs, order, outcomes>>

\* notifier.wait(state_poll) ends because a notification arrived.
WaitNotified ==
    /\ rpc = "wait"
    /\ pending
    /\ BeginPass(FALSE)
    /\ rd' = NoRead
    /\ UNCHANGED <<w, registered, since, hist, regs, order, outcomes>>

\* The host cancels the task that runs run().
Cancel ==
    /\ rpc \in {"update", "wait"}
    /\ rpc' = "cancelled"
    /\ it' = NoIter
    /\ prev_state' = NoRef
    /\ heap' = Collect(heap, state, NoRef, NoRef)
    /\ rd' = NoRead
    /\ UNCHANGED <<state, w, pending, registered, since, pass_failed,
                   loop_notified, hist, regs, order, polled, outcomes, same, last_table>>

(***************************************************************************)
(* read() and write().                                                     *)
(***************************************************************************)
\* read(pin) that also notifies the host
ReadThenNotify(pin) ==
    /\ rpc # "init"
    /\ pin \in registered
    /\ rd' = [pin |-> pin, res |-> read(pin)]
    /\ pending' = TRUE
    /\ UNCHANGED <<heap, state, prev_state, it, rpc, w, registered, since,
                   pass_failed, loop_notified, hist, regs, order, polled, outcomes, same,
                   last_table>>

\* read(pin): rd is its answer until the next step of anything.
Read(pin) ==
    /\ rpc # "init"
    /\ pin \in registered
    /\ rd' = [pin |-> pin, res |-> read(pin)]
    /\ UNCHANGED <<heap, state, prev_state, it, rpc, w, pending, registered, since,
                   pass_failed, loop_notified, hist, regs, order, polled, outcomes, same, last_table>>

\* write(pin, v) is called: the set command, with action code OUTPUTS[v], is issued.
WriteCall(pin, v) ==
    /\ rpc # "init"
    /\ pin \in registered
    /\ w.pc \in {"idle", "returned", "offline", "cancelled"}
    /\ OUTPUTS[v] \in {"1", "2"}
    /\ w' = [pc |-> "set", pin |-> pin, setok |-> FALSE, notes |-> 0]
    /\ rd' = NoRead
    /\ UNCHANGED <<heap, state, prev_state, it, rpc, pending, registered, since,
                   pass_failed, loop_notified, hist, regs, order, polled, outcomes, same, last_table>>

\* The set command answers: __set_power finishes; write() raises the offline
\* error if an exception left __set_power, and starts the settle delay if not.
SetPowerDone ==
    /\ w.pc = "set"
    /\ \E r \in Answers[w.pin] :
       LET s == set_power(w.pin, r)
       IN  /\ state' = s.state
           /\ heap' = Collect(s.heap, s.state, prev_state, it.d)
           /\ since' = SinceAfter(w.pin, s.out)
           /\ w' = IF s.raised # "none"
                   THEN [w EXCEPT !.pc = "offline", !.pin = "-", !.setok = FALSE]
                   ELSE [w EXCEPT !.pc = "sleep", !.pin = "-", !.setok = (s.out # "fail")]
    /\ rd' = NoRead
    /\ UNCHANGED <<prev_state, it, rpc, pending, registered, pass_failed,
                   loop_notified, hist, regs, order, polled, outcomes, same, last_table>>

\* write() returns after the settle delay without notifying
SleepDoneSilently ==
    /\ w.pc = "sleep"
    /\ w' = [w EXCEPT !.pc = "returned", !.notes = @ + 1]
    /\ rd' = NoRead
    /\ UNCHANGED <<heap, state, prev_state, it, rpc, pending, registered, since,
                   pass_failed, loop_notified, hist, regs, order, polled, outcomes, same,
                   last_table>>

\* The settle delay has elapsed: write() notifies and returns.
SleepDone ==
    /\ w.pc = "sleep"
    /\ pending' = TRUE
    /\ w' = [w EXCEPT !.pc = "returned", !.notes = @ + 1]
    /\ rd' = NoRead
    /\ UNCHANGED <<heap, state, prev_state, it, rpc, registered, since,
                   pass_failed, loop_notified, hist, regs, order, polled, outcomes, same, last_table>>

\* The caller cancels write() while it is suspended.
WriteCancel ==
    /\ w.pc \in {"set", "sleep"}
    /\ w' = [w EXCEPT !.pc = "cancelled", !.pin = "-"]
    /\ rd' = NoRead
    /\ UNCHANGED <<heap, state, prev_state, it, rpc, pending, registered, since,
                   pass_failed, loop_notified, hist, regs, order, polled, outcomes, same, last_table>>

Next ==
    \/ \E pin \in Pins : register_input(pin)
    \/ \E pin \in Pins, initial \in Readings : register_output(pin, initial)
    \/ RunStart
    \/ UpdatePowerDone
    \/ WaitTimeout
    \/ WaitNotified
    \/ Cancel
    \/ \E pin \in Pins : Read(pin)
    \/ \E pin \in Pins, v \in {"True", "False"} : WriteCall(pin, v)
    \/ SetPowerDone
    \/ SleepDone
    \/ WriteCancel

Spec == Init /\ [][Next]_vars

(***************************************************************************)
(* The running driver under fair scheduling, from the states in which the  *)
(* host has registered pins "1" and "2", in this order, and run() is about *)
(* to start.  The external command always answers and the poll interval    *)
(* always elapses.  Nothing makes the host start run() or spare it.        *)
(***************************************************************************)
RegisteredInit ==
    /\ InitDriver
    /\ \E a \in Readings, b \in Readings :
          heap = [i \in Ids |-> IF i = 1 THEN DictSet(DictSet(<<>>, "1", a), "2", b)
                                ELSE <<>>]
    /\ registered = {"1", "2"}
    /\ order = <<"1", "2">>
    /\ hist = FALSE

FairNext ==
    \/ RunStart
    \/ UpdatePowerDone
    \/ WaitTimeout
    \/ WaitNotified
    \/ Cancel
    \/ \E pin \in Pins, v \in {"True", "False"} : WriteCall(pin, v)
    \/ SetPowerDone
    \/ SleepDone
    \/ WriteCancel

FairSpec ==
    /\ RegisteredInit
    /\ [][FairNext]_vars
    /\ WF_vars(UpdatePowerDone)
    /\ WF_vars(WaitTimeout)

(***************************************************************************)
(* The same driver when nothing is assumed of the poll interval: the only  *)
(* step that must happen is that notifier.wait() returns once a            *)
(* notification is there for it.                                           *)
(***************************************************************************)
WakeSpec ==
    /\ RegisteredInit
    /\ [][FairNext]_vars
    /\ WF_vars(WaitNotified)

(***************************************************************************)
(* run() alone, no write() being called, with the history of its passes    *)
(* recorded.                                                               *)
(***************************************************************************)
LoopInit ==
    /\ InitDriver
    /\ heap = [i \in Ids |-> <<>>]
    /\ registered = {}
    /\ order = <<>>
    /\ hist = TRUE

LoopNext ==
    \/ \E pin \in Pins : register_input(pin)
    \/ \E pin \in Pins, initial \in Readings : register_output(pin, initial)
    \/ RunStart
    \/ UpdatePowerDone
    \/ WaitTimeout
    \/ WaitNotified
    \/ Cancel

LoopSpec == LoopInit /\ [][LoopNext]_vars

(***************************************************************************)
(* Properties.                                                             *)
(***************************************************************************)
EveryPinUnknown ==
    \A p \in registered : p \in KeySet(Table) /\ DictGet(Table, p) = None

AllUnknown(d) == \A i \in 1..Len(d) : d[i].v = None

\* A step in which the command of the pin at hand answers.
PollStep ==
    /\ rpc = "update"
    /\ rpc' \in {"update", "wait", "crashed"}
    /\ <<rpc', it'>> # <<rpc, it>>

\* A step that ends a pass of one pin or more.
PassEnd == rpc = "update" /\ rpc' = "wait"

\* A step in which the set command of write() answers.
SetStep == w.pc = "set" /\ w'.pc \in {"sleep", "offline"}

\* run() is waiting for the answer about the k-th pin.
Polling(k) == rpc = "update" /\ it.i = k

\* C1: right after a poll that failed (exit status, prefix or trailing code),
\* every registered pin's reading is unknown, not only the polled pin's.
C1_FailedPollDegradesAll ==
    [][(PollStep /\ since'.any /\ since'.set = {}) => EveryPinUnknown']_vars

C1_Witness ==
    /\ Polling(2)
    /\ pass_failed
    /\ since.any /\ since.set = {}
    /\ Cardinality(registered) = 2
    /\ EveryPinUnknown

\* C2, as claimed: at the end of a pass in which a poll failed, every registered
\* pin's reading is unknown, whatever the later polls of the pass answered.
C2_FailedPassEndsAllUnknown ==
    [][(PassEnd /\ pass_failed') => EveryPinUnknown']_vars

\* C2, amended: at the end of a pass in which a poll failed, every registered
\* pin is unknown except those set, since the latest failure, by a successful
\* poll or a successful set command.
C2_FailedPassEndsUnknownUnlessSetSince ==
    [][(PassEnd /\ pass_failed') =>
          \A p \in registered : p \notin since'.set => DictGet(Table', p) = None]_vars

C2_Witness ==
    /\ rpc = "wait"
    /\ pass_failed
    /\ Cardinality(registered) = 2
    /\ since.set = {Table[2].k}
    /\ Table[1].v = None
    /\ Table[2].v # None

\* C3: at the end of a pass, if the State Table differs from what it held at the
\* end of the previous pass, run() notifies and its snapshot holds the new contents.
C3_ChangeIsNotified ==
    [][(PassEnd /\ prev_state # NoRef /\ ~DictEq(Table', last_table)) =>
          (loop_notified' /\ DictEq(heap'[prev_state'], Table'))]_vars

\* C4: of two consecutive passes whose polls have the same outcomes and which
\* end with the same table, the second raises no notification.
C4_IdenticalPassesNotifyOnce ==
    [][(PassEnd /\ prev_state # NoRef /\ same' /\ DictEq(Table', last_table)) =>
          ~loop_notified']_vars

\* C5: when the set command of write() fails, write() raises the offline error:
\* it neither goes on to the settle delay nor returns.
C5_FailedSetIsSurfaced ==
    w.pc \in {"sleep", "returned"} => w.setok

\* C6: a write() call that is not cancelled raises exactly one notification,
\* none before its settle delay has elapsed, whether the set command succeeded or not.
C6_WriteNotifiesOnceAfterDelay ==
    /\ w.pc \in {"set", "sleep"} => w.notes = 0
    /\ w.pc \in {"returned", "offline"} => w.notes = 1

C6_Witness ==
    /\ w.pc = "returned"
    /\ ~w.setok
    /\ w.notes = 1
    /\ pending

\* C7: right after the set command of a write() failed, every registered pin's
\* reading is unknown, not only the written pin's.
C7_FailedSetDegradesAll ==
    [][(SetStep /\ ~w'.setok) => EveryPinUnknown']_vars

C7_Witness ==
    /\ w.pc = "sleep"
    /\ ~w.setok
    /\ since.any /\ since.set = {}
    /\ Cardinality(registered) = 2
    /\ EveryPinUnknown

\* C8: read(pin) raises the offline error exactly when the pin's reading is
\* unknown, and otherwise returns the stored boolean.
C8_ReadOfflineIffUnknown ==
    rd # NoRead =>
        /\ rd.res = "GpioDriverOfflineError" <=> DictGet(Table, rd.pin) = None
        /\ DictGet(Table, rd.pin) # None =>
              rd.res = DictGet(Table, rd.pin) /\ rd.res \in {"True", "False"}

C8_Witness ==
    /\ rd # NoRead
    /\ rd.res = "GpioDriverOfflineError"
    /\ since.any
    /\ \E p \in registered : DictGet(Table, p) # None

\* C9: once registration has ended, the State Table's keys are the registered
\* pins, one entry each, and every entry is on, off or unknown.
C9_TableKeysAreRegisteredPins ==
    rpc # "init" =>
        /\ KeySet(Table) = registered
        /\ Len(Table) = Cardinality(registered)
        /\ \A i \in 1..Len(Table) : Table[i].v \in Readings

C9_Witness ==
    /\ Cardinality(registered) = 2
    /\ since.any /\ since.set # {}
    /\ w.pc = "returned" /\ w.setok
    /\ rd # NoRead

\* run() has not been started, or the host has cancelled it.
Stopped == rpc \in {"init", "cancelled"}

\* C10: run() never dies of a failed poll, and unless it is cancelled it goes
\* on for ever: again and again it waits, and again and again it is polling
\* the last registered pin.
C10_LoopNeverStops ==
    /\ [](rpc # "crashed")
    /\ []<>(Stopped \/ rpc = "wait")
    /\ []<>(Stopped \/ Len(Table) = 0 \/ Polling(Len(Table)))

C10_Witness ==
    /\ Polling(1)
    /\ prev_state # NoRef
    /\ Cardinality(registered) = 2
    /\ AllUnknown(heap[prev_state])
    /\ EveryPinUnknown

\* C11, as claimed: before the first pass the State Table holds unknown for
\* every pin registered as an input and the initial reading given for every pin
\* registered as an output.
C11_RegistrationSetsInitialReadings ==
    rpc = "init" =>
        \A p \in registered :
            /\ regs[p].asin => DictGet(Table, p) = None
            /\ regs[p].initial # "-" => DictGet(Table, p) = regs[p].initial

\* C11, amended: before the first pass the State Table holds, for every
\* registered pin, the reading of the pin's latest registration: unknown if that
\* was as an input, the initial reading given if that was as an output; and a
\* registration never changes the entry of another pin.
C11_LatestRegistrationSetsReading ==
    /\ [](rpc = "init" =>
            \A p \in registered :
                /\ regs[p].last = "in" => DictGet(Table, p) = None
                /\ regs[p].last = "out" => DictGet(Table, p) = regs[p].initial)
    /\ [][rpc' = "init" =>
            \A p \in registered :
                regs'[p] = regs[p] => DictGet(Table', p) = DictGet(Table, p)]_vars

C11_Witness ==
    /\ rpc = "init"
    /\ registered = Pins
    /\ regs["1"].asin /\ regs["1"].last = "out" /\ regs["1"].initial = "True"
    /\ regs["2"].last = "in" /\ regs["2"].initial = "False"
    /\ Table[1].k = "2"
    /\ DictGet(Table, "1") = "True"
    /\ DictGet(Table, "2") = None

\* C12: the snapshot run() keeps at the end of a pass does not change until
\* run() records the next one, whatever polls and writes store in between.
C12_SnapshotIsImmutable ==
    [][(prev_state # NoRef /\ prev_state' = prev_state) =>
          heap'[prev_state'] = heap[prev_state]]_vars

\* C13: when the set command of a write() has failed and a poll of the pass under
\* way has failed, in either order, and nothing has succeeded since the later of
\* the two, every registered pin's reading is unknown: the State Table is the
\* registered pins, in registration order, all unknown.
C13_RacingDegradationsConverge ==
    (/\ w.pc \in {"sleep", "returned"} /\ ~w.setok
     /\ rpc \in {"update", "wait"} /\ pass_failed
     /\ since.any /\ since.set = {})
    => /\ EveryPinUnknown
       /\ Table = FromKeys(Table, None)
       /\ KeySet(Table) = registered
       /\ Len(Table) = Cardinality(registered)

C13_Witness ==
    /\ w.pc = "sleep" /\ ~w.setok
    /\ Polling(2) /\ pass_failed
    /\ it.d # state
    /\ since.any /\ since.set = {}
    /\ Cardinality(registered) = 2
    /\ EveryPinUnknown

\* C14: in every pass the pins are polled once each, in registration order:
\* while a command is in flight the pins polled so far are the pins registered
\* before its pin, and at the end of the pass they are all the registered pins,
\* whether or not a failed poll or a failed set has replaced the State Table
\* during this pass or an earlier one.
C14_PassPollsEachPinOnceInOrder ==
    /\ rpc = "update" =>
          /\ it.i \in 1..Len(order)
          /\ polled = SubSeq(order, 1, it.i - 1)
          /\ heap[it.d][it.i].k = order[it.i]
    /\ rpc = "wait" => polled = order
    /\ rpc # "init" =>
          /\ {order[i] : i \in 1..Len(order)} = registered
          /\ Len(order) = Cardinality(registered)

C14_Witness ==
    /\ rpc = "wait"
    /\ polled = <<"2", "1">>
    /\ ~pass_failed
    /\ since.any
    /\ prev_state # NoRef /\ prev_state # state
    /\ w.pc = "sleep" /\ ~w.setok

\* The table d2 is the table d1 with pin's reading set to val and nothing else changed.
OnlyPinSet(d1, d2, pin, val) ==
    /\ Len(d2) = Len(d1)
    /\ \A i \in 1..Len(d1) :
          /\ d2[i].k = d1[i].k
          /\ d2[i].v = IF d1[i].k = pin THEN val ELSE d1[i].v

\* A poll or a set command ended without a failure.
Succeeded == ~(since'.any /\ since'.set = {})

\* C15: a successful poll of a pin, and a successful set command of a write to
\* it, store the reading decoded from the answer under that pin and leave every
\* other pin's reading as it was.
C15_SuccessSetsOnlyItsPin ==
    /\ [](rpc = "update" =>
            \A r \in Answers[heap[it.d][it.i].k] :
                r.exc = "none" =>
                    LET u == update_power(heap[it.d][it.i].k, r)
                    IN  /\ u.state = state
                        /\ OnlyPinSet(Table, u.heap[u.state], heap[it.d][it.i].k, r.val))
    /\ [](w.pc = "set" =>
            \A r \in Answers[w.pin] :
                r.exc = "none" =>
                    LET u == set_power(w.pin, r)
                    IN  /\ u.state = state
                        /\ OnlyPinSet(Table, u.heap[u.state], w.pin, r.val))
    /\ [][(PollStep /\ Succeeded) =>
            \E val \in {"True", "False"} :
                OnlyPinSet(Table, Table', heap[it.d][it.i].k, val)]_vars
    /\ [][(SetStep /\ w'.setok) =>
            \E val \in {"True", "False"} : OnlyPinSet(Table, Table', w.pin, val)]_vars

C15_Witness ==
    /\ Polling(2)
    /\ since.any /\ since.set = {Table[1].k}
    /\ Table[1].v = "True"
    /\ Table[2].v = None
    /\ w.pc = "sleep" /\ w.setok

\* C16: read(pin), whether it returns a reading or raises the offline error,
\* changes nothing: not the State Table, not run()'s snapshot, not the commands
\* in flight (none is issued), not the notifier (none is raised).
C16_ReadChangesNothing ==
    [][rd' # NoRead =>
          /\ rd'.res = IF DictGet(Table, rd'.pin) = None THEN "GpioDriverOfflineError"
                       ELSE DictGet(Table, rd'.pin)
          /\ UNCHANGED <<heap, state, prev_state, it, rpc, w, pending, registered>>]_vars

C16_Witness ==
    /\ rd # NoRead
    /\ rd.res \in {"True", "False"}
    /\ Polling(2)
    /\ w.pc = "set"
    /\ ~pending
    /\ \E p \in registered : DictGet(Table, p) = None

\* What the claim says the answer proc to the command of pin decodes to.
Decoded(proc, pin) ==
    LET stripped == Strip(proc.text)
    IN  IF proc.returncode = 0 /\ StartsWith(stripped, Prefix(pin))
        THEN IF stripped[Len(stripped)] = "1" THEN "True"
             ELSE IF stripped[Len(stripped)] = "2" THEN "False"
             ELSE "fail"
        ELSE "fail"

\* For every answer to the command of a pin: what the try block makes of it and
\* what the claim says it decodes to.
DecodeCases ==
    [pin \in Pins |->
        {[got |-> Fetch(proc, pin), claimed |-> Decoded(proc, pin)] : proc \in Procs}]

\* C17: whatever the command of the pin being polled answers, an answer with
\* exit status 0 whose stripped text starts with the pin's prefix and ends in
\* "1" is stored as on, one ending in "2" as off; any other answer, a non-zero
\* exit status included, stores no reading: __update_power returns normally
\* and the State Table is the same pins, all unknown.
C17_DecodeOnOffOrDegrade ==
    rpc = "update" =>
        \A c \in DecodeCases[heap[it.d][it.i].k] :
            LET pin == heap[it.d][it.i].k
                u == update_power(pin, c.got)
            IN  /\ u.raised = "none"
                /\ u.out = c.claimed
                /\ IF c.claimed = "fail"
                   THEN u.heap[u.state] = FromKeys(Table, None)
                   ELSE /\ u.state = state
                        /\ OnlyPinSet(Table, u.heap[u.state], pin, c.claimed)

C17_Witness ==
    /\ rpc = "wait"
    /\ pass_failed
    /\ w = Idle
    /\ Len(Table) = 2
    /\ since.set = {Table[2].k}
    /\ Table[1].v = None
    /\ Table[2].v = "False"

\* C18: write() notifies when its settle delay has elapsed; a run() that is in
\* its wait between passes with a notification there does not stay in it, whether
\* or not the poll interval ever elapses; and the step that takes the
\* notification starts a new pass at the first pin.
C18_WriteNotificationWakesLoop ==
    /\ [][(w.pc = "sleep" /\ w'.pc = "returned") => pending']_vars
    /\ [][(rpc = "wait" /\ pending /\ ~pending') =>
            (rpc' = "update" /\ it' = [d |-> state, i |-> 1] /\ polled' = <<>>)]_vars
    /\ []<>(rpc # "wait" \/ ~pending)

C18_Witness ==
    /\ Polling(1)
    /\ w.pc = "returned" /\ w.setok
    /\ ~pending
    /\ ~pass_failed
    /\ prev_state = state

\* C19: the first pass run() completes raises a notification and records the
\* State Table, whatever the table holds, the table registration left included.
C19_FirstPassNotifies ==
    [][(PassEnd /\ prev_state = NoRef) =>
          (loop_notified' /\ pending' /\ prev_state' = state')]_vars

C19_Witness ==
    /\ rpc = "wait"
    /\ loop_notified /\ pending
    /\ ~since.any
    /\ Len(Table) = 2
    /\ \A p \in registered :
          /\ regs[p].last = "out"
          /\ regs[p].initial \in {"True", "False"}
          /\ DictGet(Table, p) = regs[p].initial

\* Every registered pin has a reading and read() returns it.
EveryPinKnown ==
    \A p \in registered :
        /\ DictGet(Table, p) \in {"True", "False"}
        /\ read(p) = DictGet(Table, p)

\* A step in which a poll or a set command fails.
FailStep == (PollStep \/ SetStep) /\ ~Succeeded

\* C20: if from some point on no poll and no set command fails, then, unless
\* run() is stopped, from some point on every registered pin has a reading and
\* read() returns it; and readings that are all known stay so over every step
\* that is not a failure.
C20_RecoversWhenCommandsSucceed ==
    /\ [][(EveryPinKnown /\ rpc # "init" /\ ~FailStep) => EveryPinKnown']_vars
    /\ ([]<><<FailStep>>_vars) \/ <>[](Stopped \/ EveryPinKnown)

C20_Witness ==
    /\ rpc = "wait"
    /\ ~pass_failed
    /\ since.any /\ since.set = registered
    /\ Cardinality(registered) = 2
    /\ EveryPinKnown
    /\ prev_state # state

====
